---- MODULE Spec2Model ----
(***************************************************************************)
(* Model of bundles/mcp-docs-server/server/mcp_context_server.py:          *)
(* ContextParser (_load_and_parse, get_overview, search) and the two MCP   *)
(* tools search_context and get_context_overview that serve it.            *)
(*                                                                         *)
(* A Python str is a sequence of one-character strings.  The literal       *)
(* fragments of the f-strings are kept as single multi-character elements, *)
(* the interpolated values ({title}, {query}, {i}, ...) are spliced in     *)
(* character by character.                                                 *)
(***************************************************************************)
EXTENDS Integers, Sequences, FiniteSets, TLC

VARIABLES
    pc,         \* "import": module body running, parser not yet built; "serving": mcp.run()
    file,       \* CONTEXT_FILE: [path, exists, content], content as read_text returns it
    sections,   \* ContextParser.sections, an insertion-ordered dict: Seq of [title, body]
    load,       \* which branch _load_and_parse took: [status, inserted]
    built,      \* the section map as _load_and_parse left it
    pending,    \* tool calls received and not yet handled, per caller
    ret,        \* the last tool call that returned: [caller, op, query, results, response]
    diag        \* the last line written to sys.stderr

vars == <<pc, file, sections, load, built, pending, ret, diag>>

-----------------------------------------------------------------------------
(* Bounds of the model *)

MaxLen == 4         \* longest text enumerated character by character
MaxLines == 4       \* longest text composed of whole lines
NumCallers == 2     \* concurrent callers of the tools

(* Constants of the program *)

MaxResults == 5     \* results[:5]
MaxMatchLines == 3  \* matching_lines[:3]

-----------------------------------------------------------------------------
(* Python str operations *)

UpperCase == <<"A","B","C","D","E","F","G","H","I","J","K","L","M",
               "N","O","P","Q","R","S","T","U","V","W","X","Y","Z">>
LowerCase == <<"a","b","c","d","e","f","g","h","i","j","k","l","m",
               "n","o","p","q","r","s","t","u","v","w","x","y","z">>
UpperSet == {UpperCase[i] : i \in 1..26}

LowerChar(c) ==
    IF c \in UpperSet THEN LowerCase[CHOOSE i \in 1..26 : UpperCase[i] = c] ELSE c

\* str.lower()
lower(s) == [i \in 1..Len(s) |-> LowerChar(s[i])]

IsSpace(c) == c \in {" ", "\n", "\t", "\r"}

RECURSIVE lstrip(_)
lstrip(s) == IF s # <<>> /\ IsSpace(Head(s)) THEN lstrip(Tail(s)) ELSE s

RECURSIVE rstrip(_)
rstrip(s) ==
    IF s # <<>> /\ IsSpace(s[Len(s)]) THEN rstrip(SubSeq(s, 1, Len(s) - 1)) ELSE s

\* str.strip()
strip(s) == rstrip(lstrip(s))

\* needle in hay
contains(needle, hay) ==
    \E i \in 0..(Len(hay) - Len(needle)) : SubSeq(hay, i + 1, i + Len(needle)) = needle

\* index of the first "\n" of s, 0 when there is none
FirstNewline(s) ==
    IF \E i \in 1..Len(s) : s[i] = "\n"
    THEN CHOOSE i \in 1..Len(s) : s[i] = "\n" /\ \A j \in 1..(i - 1) : s[j] # "\n"
    ELSE 0

\* s.split('\n', 1)
split_once(s) ==
    LET i == FirstNewline(s)
    IN  IF i = 0 THEN <<s>> ELSE <<SubSeq(s, 1, i - 1), SubSeq(s, i + 1, Len(s))>>

\* s.split('\n')
RECURSIVE split_lines(_)
split_lines(s) ==
    LET i == FirstNewline(s)
    IN  IF i = 0 THEN <<s>>
        ELSE <<SubSeq(s, 1, i - 1)>> \o split_lines(SubSeq(s, i + 1, Len(s)))

\* '\n'.join(xs)
RECURSIVE join_lines(_)
join_lines(xs) ==
    IF xs = <<>> THEN <<>>
    ELSE IF Len(xs) = 1 THEN xs[1]
    ELSE xs[1] \o <<"\n">> \o join_lines(Tail(xs))

\* str(n) for n >= 0
Digits == <<"0","1","2","3","4","5","6","7","8","9">>
RECURSIVE Str(_)
Str(n) == IF n < 10 THEN <<Digits[n + 1]>> ELSE Str(n \div 10) \o <<Digits[(n % 10) + 1]>>

\* the k-th smallest element of a finite set of integers
RECURSIVE SortedSeq(_)
SortedSeq(S) ==
    IF S = {} THEN <<>>
    ELSE LET m == CHOOSE x \in S : \A y \in S : x <= y
         IN  <<m>> \o SortedSeq(S \ {m})

\* mutant: the pattern without its ^ anchor
HeaderMatchesUnanchored(s) ==
    {i \in 1..(Len(s) - 1) : s[i] = "#" /\ s[i + 1] = " "}

\* positions where r'^# ' matches under re.MULTILINE: "# " at the start of
\* the text or right after a "\n"
HeaderMatches(s) ==
    {i \in 1..(Len(s) - 1) :
        /\ s[i] = "#"
        /\ s[i + 1] = " "
        /\ (i = 1 \/ s[i - 1] = "\n")}

\* re.split(r'^# ', content, flags=re.MULTILINE)
re_split(content) ==
    LET ps == SortedSeq(HeaderMatches(content))
        n  == Len(ps)
    IN  IF n = 0 THEN <<content>>
        ELSE <<SubSeq(content, 1, ps[1] - 1)>> \o
             [k \in 1..n |->
                SubSeq(content, ps[k] + 2,
                       (IF k < n THEN ps[k + 1] ELSE Len(content) + 1) - 1)]

-----------------------------------------------------------------------------
(* dict with str keys, in insertion order *)

Entry(t, b) == [title |-> t, body |-> b]

has_key(d, k) == \E i \in 1..Len(d) : d[i].title = k

\* mutant: an existing key is removed and inserted again at the end
setitem_reinsert(d, k, v) ==
    Append(SelectSeq(d, LAMBDA x : x.title # k), Entry(k, v))

\* d[k] = v: an existing key keeps its position
setitem(d, k, v) ==
    IF has_key(d, k)
    THEN [i \in 1..Len(d) |-> IF d[i].title = k THEN Entry(k, v) ELSE d[i]]
    ELSE Append(d, Entry(k, v))

-----------------------------------------------------------------------------
(* ContextParser._load_and_parse *)

ErrorTitle == <<"E","r","r","o","r">>
IntroductionTitle == <<"I","n","t","r","o","d","u","c","t","i","o","n">>
DocumentationTitle == <<"D","o","c","u","m","e","n","t","a","t","i","o","n">>

NOT_FOUND_MSG ==
    <<"Documentation file not found. Please create ", "context.md",
      " in the project root.">>
FailedToLoad(e) == <<"Failed to load documentation: ">> \o e

\* mutant: a text that is empty after trimming gives no section
InsertsSkippingEmpty(content) ==
    LET chunks == re_split(content)
    IN  IF strip(content) = <<>> THEN <<>>
        ELSE IF Len(chunks) > 1
        THEN (IF strip(chunks[1]) # <<>>
              THEN <<Entry(IntroductionTitle, strip(chunks[1]))>>
              ELSE <<>>) \o
             [k \in 1..(Len(chunks) - 1) |->
                LET lines == split_once(chunks[k + 1])
                IN  Entry(strip(lines[1]),
                          strip(IF Len(lines) > 1 THEN lines[2] ELSE <<>>))]
        ELSE <<Entry(DocumentationTitle, strip(content))>>

\* the assignments self.sections[...] = ... of the try block, in program order
Inserts(content) ==
    LET chunks == re_split(content)
    IN  IF Len(chunks) > 1
        THEN (IF strip(chunks[1]) # <<>>
              THEN <<Entry(IntroductionTitle, strip(chunks[1]))>>
              ELSE <<>>) \o
             [k \in 1..(Len(chunks) - 1) |->
                LET lines == split_once(chunks[k + 1])
                    title == strip(lines[1])
                    content_part == IF Len(lines) > 1 THEN lines[2] ELSE <<>>
                IN  Entry(title, strip(content_part))]
        ELSE <<Entry(DocumentationTitle, strip(content))>>

\* self.sections after the first n of those assignments
RECURSIVE Assign(_, _, _)
Assign(d, ins, n) ==
    IF n = 0 \/ ins = <<>> THEN d
    ELSE Assign(setitem(d, Head(ins).title, Head(ins).body), Tail(ins), n - 1)

\* mutant: the except clause adds "Error" to the map instead of replacing it
OnExceptionUpdate(d, e) == setitem(d, ErrorTitle, FailedToLoad(e))

\* the except clause: self.sections = {"Error": ...}, d being the map so far
OnException(d, e) == <<Entry(ErrorTitle, FailedToLoad(e))>>

\* mutant: the not-found message is built from the path
NotFoundSectionsWithPath ==
    <<Entry(ErrorTitle, <<"Documentation file not found at ">> \o file.path)>>

\* the not-found branch: self.sections = {"Error": ...}
NotFoundSections == <<Entry(ErrorTitle, NOT_FOUND_MSG)>>

-----------------------------------------------------------------------------
(* ContextParser.get_overview *)

NO_SECTIONS_MSG == <<"No documentation sections available.">>

RECURSIVE OverviewLines(_, _)
OverviewLines(d, i) ==
    IF i > Len(d) THEN <<>>
    ELSE Str(i) \o <<". ">> \o d[i].title \o <<"\n">> \o OverviewLines(d, i + 1)

get_overview(d) ==
    IF d = <<>> THEN NO_SECTIONS_MSG
    ELSE <<"Available documentation sections:\n\n">> \o OverviewLines(d, 1)

-----------------------------------------------------------------------------
(* ContextParser.search *)

NO_SEARCH_MSG == <<"No documentation available to search.">>
NoResults(query) ==
    <<"No results found for '">> \o query \o <<"' in the documentation.">>

Result(t, c) == [title |-> t, context |-> c]

TitleContext(title) == <<"Found in section title: ">> \o title
\* mutant: every matching line, without the [:3]
BodyContextAllLines(title, matching_lines) ==
    <<"From '">> \o title \o <<"' section:\n">> \o join_lines(matching_lines)

BodyContext(title, matching_lines) ==
    <<"From '">> \o title \o <<"' section:\n">> \o
    join_lines(SubSeq(matching_lines, 1,
                      IF Len(matching_lines) < MaxMatchLines
                      THEN Len(matching_lines) ELSE MaxMatchLines))

\* first loop: for title, content in self.sections.items()
RECURSIVE TitlePass(_, _)
TitlePass(d, query_lower) ==
    IF d = <<>> THEN <<>>
    ELSE (IF contains(query_lower, lower(Head(d).title))
          THEN <<Result(Head(d).title, TitleContext(Head(d).title))>>
          ELSE <<>>) \o TitlePass(Tail(d), query_lower)

\* for line in lines: if query_lower in line.lower(): append(line.strip())
RECURSIVE MatchingLines(_, _)
MatchingLines(lines, query_lower) ==
    IF lines = <<>> THEN <<>>
    ELSE (IF contains(query_lower, lower(Head(lines)))
          THEN <<strip(Head(lines))>>
          ELSE <<>>) \o MatchingLines(Tail(lines), query_lower)

\* second loop: for title, content in self.sections.items()
RECURSIVE BodyPass(_, _)
BodyPass(d, query_lower) ==
    IF d = <<>> THEN <<>>
    ELSE LET title == Head(d).title
             content == Head(d).body
             matching_lines == MatchingLines(split_lines(content), query_lower)
         IN  (IF contains(query_lower, lower(content)) /\ matching_lines # <<>>
              THEN <<Result(title, BodyContext(title, matching_lines))>>
              ELSE <<>>) \o BodyPass(Tail(d), query_lower)

\* mutant: the content loop runs before the title loop
search_results_body_first(d, query) ==
    BodyPass(d, lower(query)) \o TitlePass(d, lower(query))

\* mutant: the query is compared as typed, query.lower() forgotten
search_results_case_sensitive(d, query) ==
    TitlePass(d, query) \o BodyPass(d, query)

\* the list results when the formatting starts
search_results(d, query) ==
    TitlePass(d, lower(query)) \o BodyPass(d, lower(query))

\* mutant: the slice is one too long
RECURSIVE FormatResultsOneMore(_, _)
FormatResultsOneMore(results, i) ==
    IF i > Len(results) \/ i > MaxResults + 1 THEN <<>>
    ELSE Str(i) \o <<". ">> \o results[i].context \o <<"\n\n">> \o
         FormatResultsOneMore(results, i + 1)

\* for i, (title, context) in enumerate(results[:5], 1)
RECURSIVE FormatResults(_, _)
FormatResults(results, i) ==
    IF i > Len(results) \/ i > MaxResults THEN <<>>
    ELSE Str(i) \o <<". ">> \o results[i].context \o <<"\n\n">> \o
         FormatResults(results, i + 1)

MoreResults(n) == <<"... and ">> \o Str(n) \o <<" more results found.\n">>

search(d, query) ==
    IF d = <<>> THEN NO_SEARCH_MSG
    ELSE LET results == search_results(d, query)
         IN  IF results = <<>> THEN NoResults(query)
             ELSE <<"Search results for '">> \o query \o <<"':\n\n">> \o
                  FormatResults(results, 1) \o
                  (IF Len(results) > MaxResults
                   THEN MoreResults(Len(results) - MaxResults)
                   ELSE <<>>)

-----------------------------------------------------------------------------
(* The files, queries and callers the model runs on *)

Alphabet == {"#", " ", "\n", "a"}

\* every text of at most MaxLen characters
ShortTexts == UNION {[1..k -> Alphabet] : k \in 0..MaxLen}

LineTexts == {<<"#"," ","a">>, <<"#"," ","A">>, <<"a">>, <<" ","b">>}

\* every text of at most MaxLines lines, each one of LineTexts
ComposedTexts ==
    {join_lines(ls) : ls \in UNION {[1..k -> LineTexts] : k \in 1..MaxLines}}

\* "# b\na\n# bb\na\n ..." with n sections
RECURSIVE BodyOnlyText(_)
BodyOnlyText(n) ==
    IF n = 0 THEN <<>>
    ELSE BodyOnlyText(n - 1) \o <<"#", " ">> \o [j \in 1..n |-> "b"] \o
         <<"\n", "a", "\n">>

ExampleTexts ==
    { <<"#"," ","A","\n","f","o","o","\n","#"," ","B","\n","b","a","r">>,
      <<"i","n","t","r","o"," ","t","e","x","t","\n","#"," ","A","\n","f","o","o">>,
      <<"F","o","o"," ","b","a","r">>,
      <<"a","\n","#"," ","I","n","t","r","o","d","u","c","t","i","o","n","\n","b">>,
      <<"#"," ","a","\t","\n","a"," ","\n","a","\n","#"," ","a"," ","a">>,
      BodyOnlyText(MaxResults + 3) }

Contents == ShortTexts \cup ComposedTexts \cup ExampleTexts

Paths == {<<"/","s","r","v","/","c","o","n","t","e","x","t",".","m","d">>,
          <<"context.md">>}

Files ==
    {[path |-> p, exists |-> FALSE, content |-> <<>>] : p \in Paths} \cup
    {[path |-> p, exists |-> TRUE, content |-> c] :
        p \in {<<"context.md">>}, c \in Contents}

\* str(e) of the exception caught at line 78
ExceptionTexts == {<<"[Errno 13] Permission denied">>}

Queries == {<<>>, <<"a">>, <<"A">>, <<"b">>, <<"a","\n","a">>}

Callers == 1..NumCallers

-----------------------------------------------------------------------------
(* State machine *)

NoCall == [caller |-> 0, op |-> "none", query |-> <<>>, results |-> <<>>,
           response |-> <<>>]
NoRequest == [op |-> "none", query |-> <<>>]
Requests ==
    {[op |-> "search", query |-> q] : q \in {<<>>, <<"a">>, <<"A">>}} \cup
    {[op |-> "overview", query |-> <<>>]}

InitCommon ==
    /\ pc = "import"
    /\ sections = <<>>
    /\ load = [status |-> "none", inserted |-> 0]
    /\ built = <<>>
    /\ ret = NoCall
    /\ diag = <<"Initializing context parser...">>

Init ==
    /\ InitCommon
    /\ file \in Files
    /\ pending = <<>>

\* how many assignments to self.sections precede a statement of the try block
\* that does I/O and so can raise: read_text and the print of line 55 (none),
\* the print of line 76 (all of them)
RaisePoints(ins) == {0, Len(ins)}

\* ContextParser(CONTEXT_FILE) at import: __init__ and _load_and_parse
load_and_parse ==
    /\ pc = "import"
    /\ \/ /\ ~file.exists
          /\ sections' = NotFoundSections
          /\ load' = [status |-> "NotFound", inserted |-> 0]
          /\ diag' = <<"WARNING: Context file not found at ">> \o file.path
       \/ /\ ~file.exists
          /\ \E e \in ExceptionTexts :
                /\ sections' = OnException(sections, e)
                /\ diag' = <<"ERROR loading context file: ">> \o e
          /\ load' = [status |-> "Exception", inserted |-> 0]
       \/ /\ file.exists
          /\ LET ins == Inserts(file.content)
             IN  /\ sections' = Assign(sections, ins, Len(ins))
                 /\ load' = [status |-> "Loaded", inserted |-> Len(ins)]
          /\ diag' = <<"Parsed ">> \o Str(Len(sections')) \o <<" sections">>
       \/ /\ file.exists
          /\ LET ins == Inserts(file.content)
             IN  \E e \in ExceptionTexts, n \in RaisePoints(ins) :
                    /\ sections' = OnException(Assign(sections, ins, n), e)
                    /\ load' = [status |-> "Exception", inserted |-> n]
                    /\ diag' = <<"ERROR loading context file: ">> \o e
    /\ built' = sections'
    /\ pc' = "serving"
    /\ UNCHANGED <<file, pending, ret>>

\* mutant: the tool records the query in the section map
RunSearchRecording(c, query) ==
    /\ diag' = <<"Searching for: ">> \o query
    /\ ret' = [caller |-> c, op |-> "search", query |-> query,
               results |-> IF sections = <<>> THEN <<>>
                           ELSE search_results(sections, query),
               response |-> search(sections, query)]
    /\ sections' = setitem(sections, query, <<>>)
    /\ UNCHANGED <<pc, file, load, built>>

\* the body of the tool search_context, run for caller c
RunSearch(c, query) ==
    /\ diag' = <<"Searching for: ">> \o query
    /\ ret' = [caller |-> c, op |-> "search", query |-> query,
               results |-> IF sections = <<>> THEN <<>>
                           ELSE search_results(sections, query),
               response |-> search(sections, query)]
    /\ UNCHANGED <<pc, file, sections, load, built>>

\* the body of the tool get_context_overview, run for caller c
RunOverview(c) ==
    /\ diag' = <<"Getting context overview">>
    /\ ret' = [caller |-> c, op |-> "overview", query |-> <<>>,
               results |-> <<>>, response |-> get_overview(sections)]
    /\ UNCHANGED <<pc, file, sections, load, built>>

\* one call of the tool, received and answered
search_context(query) ==
    /\ pc = "serving"
    /\ RunSearch(0, query)
    /\ UNCHANGED pending

get_context_overview ==
    /\ pc = "serving"
    /\ RunOverview(0)
    /\ UNCHANGED pending

Next ==
    \/ load_and_parse
    \/ \E q \in Queries : search_context(q)
    \/ get_context_overview

Spec == Init /\ [][Next]_vars

-----------------------------------------------------------------------------
(* The tools called by several callers: a call is received, waits in the     *)
(* event loop, and its coroutine then runs to completion (it never awaits).  *)

ServeTexts ==
    { <<>>,
      <<"a","\n","#"," ","a","\n","#"," ","A">>,
      <<"#"," ","a","\n","a","\n","#"," ","a","\n"," ","b">> }

ServeFiles ==
    {[path |-> <<"context.md">>, exists |-> FALSE, content |-> <<>>]} \cup
    {[path |-> <<"context.md">>, exists |-> TRUE, content |-> c] : c \in ServeTexts}

InitServe ==
    /\ InitCommon
    /\ file \in ServeFiles
    /\ pending = [c \in Callers |-> NoRequest]

\* a tool call of caller c arrives
Request(c, r) ==
    /\ pc = "serving"
    /\ pending[c] = NoRequest
    /\ pending' = [pending EXCEPT ![c] = r]
    /\ UNCHANGED <<pc, file, sections, load, built, ret, diag>>

HandleSearch(c) ==
    /\ pc = "serving"
    /\ pending[c].op = "search"
    /\ RunSearch(c, pending[c].query)
    /\ pending' = [pending EXCEPT ![c] = NoRequest]

HandleOverview(c) ==
    /\ pc = "serving"
    /\ pending[c].op = "overview"
    /\ RunOverview(c)
    /\ pending' = [pending EXCEPT ![c] = NoRequest]

NextServe ==
    \/ load_and_parse
    \/ \E c \in Callers, r \in Requests : Request(c, r)
    \/ \E c \in Callers : HandleSearch(c)
    \/ \E c \in Callers : HandleOverview(c)

SpecServe == InitServe /\ [][NextServe]_vars

-----------------------------------------------------------------------------
(* Reference definitions used by the properties below *)

Min(a, b) == IF a < b THEN a ELSE b

RECURSIVE Flatten(_)
Flatten(ss) == IF ss = <<>> THEN <<>> ELSE Head(ss) \o Flatten(Tail(ss))

\* the lines of a text, "\n" being the separator
RefLines(text) ==
    LET nl  == SortedSeq({i \in 1..Len(text) : text[i] = "\n"})
        cut == <<0>> \o nl \o <<Len(text) + 1>>
    IN  [k \in 1..(Len(nl) + 1) |-> SubSeq(text, cut[k] + 1, cut[k + 1] - 1)]

IsHeaderLine(l) == Len(l) >= 2 /\ l[1] = "#" /\ l[2] = " "

\* the numbers of the lines that start with "# ", ascending
RefHeaders(text) ==
    SortedSeq({k \in 1..Len(RefLines(text)) : IsHeaderLine(RefLines(text)[k])})

\* one (title, body) per header line, preceded by the preamble as "Introduction"
RefOccurrences(text) ==
    LET lines == RefLines(text)
        hs == RefHeaders(text)
        n == Len(hs)
        preamble == strip(join_lines(SubSeq(lines, 1, hs[1] - 1)))
    IN  IF n = 0 THEN <<Entry(DocumentationTitle, strip(text))>>
        ELSE (IF preamble # <<>> THEN <<Entry(IntroductionTitle, preamble)>> ELSE <<>>) \o
             [j \in 1..n |->
                Entry(strip(SubSeq(lines[hs[j]], 3, Len(lines[hs[j]]))),
                      strip(join_lines(SubSeq(lines, hs[j] + 1,
                            (IF j < n THEN hs[j + 1] ELSE Len(lines) + 1) - 1))))]

FirstIndex(occ, t) ==
    CHOOSE i \in 1..Len(occ) : occ[i].title = t /\ \A j \in 1..(i - 1) : occ[j].title # t
LastIndex(occ, t) ==
    CHOOSE i \in 1..Len(occ) :
        occ[i].title = t /\ \A j \in (i + 1)..Len(occ) : occ[j].title # t

\* titles in order of first appearance, each with the body of its last occurrence
RefMap(occ) ==
    LET f == SortedSeq({i \in 1..Len(occ) : FirstIndex(occ, occ[i].title) = i})
    IN  [k \in 1..Len(f) |->
            Entry(occ[f[k]].title, occ[LastIndex(occ, occ[f[k]].title)].body)]

Loaded == pc = "serving" /\ load.status = "Loaded"
LoadFailed == pc = "serving" /\ load.status \in {"NotFound", "Exception"}
SearchReturned == ret.op = "search"
OverviewReturned == ret.op = "overview"

\* sections whose title contains the query, in map order
TitleHits(q) ==
    SortedSeq({i \in 1..Len(sections) : contains(lower(q), lower(sections[i].title))})
\* lines of a body that contain the query
LineHits(q, body) ==
    {j \in 1..Len(RefLines(body)) : contains(lower(q), lower(RefLines(body)[j]))}
\* sections with such a line, in map order
BodyHits(q) ==
    SortedSeq({i \in 1..Len(sections) : LineHits(q, sections[i].body) # {}})

Count(results, t) == Cardinality({k \in 1..Len(results) : results[k].title = t})
NumberedEntries(response) ==
    Cardinality({k \in 1..Len(response) : response[k] = ". "})
HasMoreLine(response) == \E k \in 1..Len(response) : response[k] = "... and "

TextP2 == <<"#"," ","A","\n","f","o","o","\n","#"," ","B","\n","b","a","r">>
TextP3 == <<"i","n","t","r","o"," ","t","e","x","t","\n","#"," ","A","\n","f","o","o">>

-----------------------------------------------------------------------------
(* C1: whenever loading fails (no file, or an exception in the try block),  *)
(* the section map has exactly one entry, titled "Error", nothing parsed    *)
(* before the failure survives, and get_overview() lists exactly one        *)
(* numbered section.                                                        *)
C1_FailedLoadLeavesOnlyError ==
    LoadFailed =>
        /\ Len(sections) = 1
        /\ sections[1].title = ErrorTitle
        /\ OverviewReturned =>
             ret.response = <<"Available documentation sections:\n\n", "1", ". ">>
                            \o ErrorTitle \o <<"\n">>

C1_Witness ==
    /\ LoadFailed
    /\ load.status = "Exception"
    /\ load.inserted >= 2
    /\ OverviewReturned

(* C2 as claimed: when the location does not exist, the body of the "Error" *)
(* section contains the path.                                               *)
C2_BodyMentionsPath ==
    (pc = "serving" /\ ~file.exists) => contains(file.path, sections[1].body)

(* C2, amended: when the location does not exist, the map is the single     *)
(* entry "Error" whose body is a text that is the same for every path: the  *)
(* fixed not-found message, or "Failed to load documentation: <cause>" when *)
(* writing the warning raised; the path itself goes to the warning line on  *)
(* stderr only.                                                             *)
C2_BodyIsFixedText ==
    (pc = "serving" /\ ~file.exists) =>
        /\ Len(sections) = 1
        /\ sections[1].title = ErrorTitle
        /\ load.status \in {"NotFound", "Exception"}
        /\ load.status = "NotFound" =>
             sections[1].body = <<"Documentation file not found. Please create ",
                                  "context.md", " in the project root.">>
        /\ load.status = "Exception" =>
             \E e \in ExceptionTexts :
                sections[1].body = <<"Failed to load documentation: ">> \o e
        /\ (load.status = "NotFound" /\ ret = NoCall) =>
             diag = <<"WARNING: Context file not found at ">> \o file.path

C2_Witness ==
    /\ pc = "serving"
    /\ ~file.exists
    /\ load.status = "NotFound"
    /\ ~contains(file.path, sections[1].body)
    /\ contains(file.path, diag)

(* C3: for a text that was read, the map is the reference segmentation: no  *)
(* line starting with "# " gives {"Documentation": trimmed text}; otherwise *)
(* a non-empty trimmed preamble is "Introduction" and every header line     *)
(* gives (rest of the line trimmed, following text up to the next header    *)
(* trimmed); "# A\nfoo\n# B\nbar" gives {A: foo, B: bar} and                *)
(* "intro text\n# A\nfoo" gives {Introduction: intro text, A: foo}.         *)
C3_ReferenceSegmentation ==
    Loaded =>
        /\ sections = RefMap(RefOccurrences(file.content))
        /\ RefHeaders(file.content) = <<>> =>
             sections = <<Entry(DocumentationTitle, strip(file.content))>>
        /\ file.content = TextP2 =>
             sections = <<Entry(<<"A">>, <<"f","o","o">>), Entry(<<"B">>, <<"b","a","r">>)>>
        /\ file.content = TextP3 =>
             sections = <<Entry(IntroductionTitle, <<"i","n","t","r","o"," ","t","e","x","t">>),
                          Entry(<<"A">>, <<"f","o","o">>)>>

C3_Witness ==
    /\ Loaded
    /\ Len(sections) = 3
    /\ sections[1].title = IntroductionTitle
    /\ sections[2].body # <<>>
    /\ sections[3].body = <<>>

(* C4: titles are unique in the map; a title that occurs several times has  *)
(* one entry, with the body of its last occurrence, at the position of its  *)
(* first occurrence, which is also its number in get_overview().            *)
C4_RepeatedTitle ==
    Loaded =>
        LET occ == RefOccurrences(file.content)
        IN  /\ \A i, j \in 1..Len(sections) :
                 i # j => sections[i].title # sections[j].title
            /\ \A k \in 1..Len(occ) : has_key(sections, occ[k].title)
            /\ \A i \in 1..Len(sections) :
                 /\ \E k \in 1..Len(occ) : occ[k].title = sections[i].title
                 /\ sections[i].body = occ[LastIndex(occ, sections[i].title)].body
            /\ \A i, j \in 1..Len(sections) :
                 i < j => FirstIndex(occ, sections[i].title)
                            < FirstIndex(occ, sections[j].title)
            /\ OverviewReturned =>
                 ret.response =
                    <<"Available documentation sections:\n\n">> \o
                    Flatten([i \in 1..Len(sections) |->
                                Str(i) \o <<". ">> \o sections[i].title \o <<"\n">>])

C4_Witness ==
    /\ Loaded
    /\ OverviewReturned
    /\ LET occ == RefOccurrences(file.content)
       IN  /\ Len(occ) = 3
           /\ occ[1].title = occ[3].title
           /\ occ[1].title # occ[2].title
           /\ occ[1].body # occ[3].body

(* C5: the result list of search() is the title matches followed by the     *)
(* body matches, each group in map order; a section whose title and body    *)
(* both contain the query is there exactly twice, and no section is twice   *)
(* in a group.                                                              *)
C5_TitleMatchesThenBodyMatches ==
    SearchReturned =>
        LET q == ret.query
            r == ret.results
            th == TitleHits(q)
            bh == BodyHits(q)
        IN  /\ Len(r) = Len(th) + Len(bh)
            /\ \A k \in 1..Len(th) :
                 /\ r[k].title = sections[th[k]].title
                 /\ r[k].context[1] = "Found in section title: "
            /\ \A k \in 1..Len(bh) :
                 /\ r[Len(th) + k].title = sections[bh[k]].title
                 /\ r[Len(th) + k].context[1] = "From '"
            /\ \A i \in 1..Len(sections) :
                 /\ Count(r, sections[i].title) <= 2
                 /\ (/\ contains(lower(q), lower(sections[i].title))
                     /\ contains(lower(q), lower(sections[i].body)))
                    => Count(r, sections[i].title) = 2
            /\ \A k1, k2 \in 1..Len(r) :
                 (k1 # k2 /\ r[k1].title = r[k2].title) =>
                    (k1 <= Len(th)) # (k2 <= Len(th))

C5_Witness ==
    /\ SearchReturned
    /\ Len(sections) = 3
    /\ Len(ret.results) = 4
    /\ Count(ret.results, sections[2].title) = 2
    /\ Count(ret.results, sections[1].title) = 1
    /\ Count(ret.results, sections[3].title) = 1

(* C6: with n >= 1 results the response lists exactly min(n, 5) entries,    *)
(* numbered from 1 and taken from the front of the result list; the "more   *)
(* results" line is there iff n > 5 and states n - 5; 8 body-only matches   *)
(* give 5 entries and "3 more"; with n = 0 the response is the no-results   *)
(* message naming the query.                                                *)
C6_ResultCap ==
    SearchReturned =>
        LET r == ret.results
            n == Len(r)
        IN  /\ n = 0 =>
                 ret.response = <<"No results found for '">> \o ret.query \o
                                <<"' in the documentation.">>
            /\ n >= 1 =>
                 ret.response =
                    <<"Search results for '">> \o ret.query \o <<"':\n\n">> \o
                    Flatten([i \in 1..Min(n, 5) |->
                                Str(i) \o <<". ">> \o r[i].context \o <<"\n\n">>]) \o
                    (IF n > 5
                     THEN <<"... and ">> \o Str(n - 5) \o <<" more results found.\n">>
                     ELSE <<>>)
            /\ NumberedEntries(ret.response) = Min(n, 5)
            /\ HasMoreLine(ret.response) <=> n > 5
            /\ (Loaded /\ file.content = BodyOnlyText(8) /\ ret.query = <<"a">>) =>
                 /\ n = 8
                 /\ \A k \in 1..n : r[k].context[1] = "From '"
                 /\ NumberedEntries(ret.response) = 5
                 /\ SubSeq(ret.response, Len(ret.response) - 2, Len(ret.response))
                      = <<"... and ", "3", " more results found.\n">>

C6_Witness ==
    /\ SearchReturned
    /\ Loaded
    /\ file.content = BodyOnlyText(8)
    /\ ret.query = <<"a">>
    /\ Len(ret.results) = 8
    /\ HasMoreLine(ret.response)

(* C7 as claimed: two queries that differ only in letter case make          *)
(* search() return equal values.                                            *)
C7_EqualReturnValue ==
    SearchReturned =>
        \A q2 \in Queries :
            lower(q2) = lower(ret.query) => search(sections, q2) = ret.response

(* C7, amended: two queries that differ only in letter case give the same   *)
(* result list (the same sections and snippets, in the same order), and     *)
(* the returned strings are equal except for the query, which the heading   *)
(* (or the no-results message) repeats as it was typed.                     *)
C7_EqualResultList ==
    SearchReturned =>
        \A q2 \in Queries :
            lower(q2) = lower(ret.query) =>
                LET other == search(sections, q2)
                    echo == 2..(Len(q2) + 1)
                IN  /\ search_results(sections, q2) = ret.results
                    /\ Len(other) = Len(ret.response)
                    /\ \A k \in 1..Len(other) :
                          k \notin echo => other[k] = ret.response[k]
                    /\ SubSeq(other, 2, Len(q2) + 1) = q2
                    /\ SubSeq(ret.response, 2, Len(q2) + 1) = ret.query

C7_Witness ==
    /\ SearchReturned
    /\ ret.query = <<"A">>
    /\ Len(ret.results) >= 2
    /\ search(sections, <<"a">>) # ret.response
    /\ \E i \in 1..Len(sections) : sections[i].title = <<"a">>

(* C8: the section map is built once, before any tool call can arrive, and  *)
(* no interleaving of calls changes it; every returned string is the one    *)
(* the call's own query gives on the map as built.                          *)
C8_MapFixedWhileServing ==
    /\ pc = "import" =>
         /\ ret = NoCall
         /\ \A c \in DOMAIN pending : pending[c] = NoRequest
         /\ load.status = "none"
    /\ pc = "serving" =>
         /\ load.status # "none"
         /\ sections = built
    /\ SearchReturned => ret.response = search(built, ret.query)
    /\ OverviewReturned => ret.response = get_overview(built)

C8_Witness ==
    /\ SearchReturned
    /\ ret.caller = 2
    /\ pending[2].op = "overview"
    /\ pending[1] = [op |-> "search", query |-> ret.query]
    /\ Len(ret.results) >= 2

(* C9: in the body pass a section gives a result iff one of the lines of    *)
(* its body contains the query; the result is one, and its snippet is the   *)
(* first min(3, m) of the m matching lines, in order, each trimmed; the     *)
(* test on the whole body changes nothing, so a query that spans a line     *)
(* break matches no body.                                                   *)
C9_BodyPassLineByLine ==
    SearchReturned =>
        LET q == ret.query
            r == ret.results
            nt == Len(TitleHits(q))
            bh == BodyHits(q)
        IN  /\ Len(r) = nt + Len(bh)
            /\ \A k \in 1..Len(bh) :
                 LET s == sections[bh[k]]
                     lines == RefLines(s.body)
                     ms == SortedSeq(LineHits(q, s.body))
                     shown == [x \in 1..Min(3, Len(ms)) |-> strip(lines[ms[x]])]
                 IN  r[nt + k] =
                        Result(s.title,
                               <<"From '">> \o s.title \o <<"' section:\n">> \o
                               Flatten([x \in 1..Len(shown) |->
                                   IF x = 1 THEN shown[x] ELSE <<"\n">> \o shown[x]]))
            /\ \A i \in 1..Len(sections) :
                 LineHits(q, sections[i].body) # {} =>
                    contains(lower(q), lower(sections[i].body))
            /\ contains(<<"\n">>, q) => bh = <<>>

C9_Witness ==
    /\ SearchReturned
    /\ ret.query = <<"a">>
    /\ Len(sections) = 1
    /\ Cardinality(LineHits(ret.query, sections[1].body)) = 4
    /\ Len(ret.results) = 2
    /\ ret.results[2].context[1] = "From '"

(* C10: once built, the section map has at least one entry whatever the     *)
(* file (missing, unreadable, empty, headers only, preamble only), so       *)
(* neither "No documentation sections available." nor "No documentation     *)
(* available to search." is ever returned.                                  *)
C10_MapNeverEmpty ==
    /\ pc = "serving" => Len(sections) >= 1
    /\ ret.response # <<"No documentation sections available.">>
    /\ ret.response # <<"No documentation available to search.">>

C10_Witness ==
    /\ Loaded
    /\ file.content = <<>>
    /\ SearchReturned
    /\ sections = <<Entry(DocumentationTitle, <<>>)>>

====
